---- MODULE Spec2Model ----
(***************************************************************************)
(* Model of appctx.container.ApplicationContext: a dependency-injection    *)
(* container that keeps a list of pending bean definitions, a name map and *)
(* a type map, and instantiates the definitions in refresh().              *)
(***************************************************************************)
EXTENDS Integers, Sequences, FiniteSets, TLC

VARIABLES
    bean_defs,        \* self.bean_defs: pending definitions, registration order
    bean_names_map,   \* self.bean_names_map: name -> instance
    bean_types_map,   \* self.bean_types_map: type -> list of instances
    pc,               \* "idle" | "scan" (inside _refresh) | "hooks" (inside _call_post_construct)
    i,                \* loop index of _refresh (1-based)
    obj,              \* instance being post-constructed by _instantiate (0: none)
    todo,             \* attribute names _call_post_construct still has to visit
    insts,            \* every object a factory has returned, in creation order
    outcome,          \* how the last refresh() call ended
    previous,         \* how the refresh() call before that one ended
    reported,         \* definitions named by the last "Could not instantiate" error
    registered,       \* every definition passed to bean()/add(), in call order
    decorators_bean_defs, \* bean_defs of the context appctx.decorators creates
    calls,            \* number of refresh() calls started
    n0,               \* len(bean_defs) when the current refresh() call started
    known,            \* number of registrations made when that call started
    attempts,         \* _instantiate calls made by the current refresh() call
    built             \* factory invocations made by the current refresh() call

vars == <<bean_defs, bean_names_map, bean_types_map, pc, i, obj, todo, insts,
          outcome, previous, reported, registered, decorators_bean_defs, calls, n0,
          known, attempts, built>>

----------------------------------------------------------------------------
(* Bounds *)

MaxDefs == 3        \* definitions registered in one behaviour
MaxRefresh == 2     \* refresh() calls in one behaviour
MaxDecorated == 1   \* of the definitions, those registered through appctx.decorators

----------------------------------------------------------------------------
(* Bean definitions used as inputs.  A definition is a function or a class; *)
(* the record keeps what inspect.getfullargspec and the call report.        *)

NoHooks == <<>>
NoParams == <<>>
NoMap == [x \in {} |-> x]

\* A function bean: def name(args, *, kwonly, **kw) -> produces
Fn(name, produces, truthy, args, annotations, kwonly, defaults, varkw, hooks) ==
    [name |-> name, is_class |-> FALSE, produces |-> produces, truthy |-> truthy,
     args |-> args, annotations |-> annotations, kwonlyargs |-> kwonly,
     kwonlydefaults |-> defaults, varkw |-> varkw, hooks |-> hooks]

\* A class bean: __init__(self, args, *, kwonly); the class is name and type
Cls(name, args, annotations, kwonly, defaults, hooks) ==
    [name |-> name, is_class |-> TRUE, produces |-> name, truthy |-> TRUE,
     args |-> <<"self">> \o args, annotations |-> annotations,
     kwonlyargs |-> kwonly, kwonlydefaults |-> defaults, varkw |-> FALSE,
     hooks |-> hooks]

\* A method marked with @post_construct: its name and whether it raises
Hook(name, raises) == [name |-> name, raises |-> raises]

DefTable ==
    [ service    |-> Fn("service", "Service", TRUE, NoParams, NoMap, NoParams, NoMap, FALSE, NoHooks),
      service2   |-> Fn("service2", "Service", TRUE, NoParams, NoMap, NoParams, NoMap, FALSE, NoHooks),
      Repository |-> Cls("Repository", <<"service">>, ("service" :> "Service"),
                         NoParams, NoMap, NoHooks),
      controller |-> Fn("controller", "Controller", TRUE, <<"repository", "service">>,
                        ("repository" :> "Repository" @@ "service" :> "Service"),
                        NoParams, NoMap, FALSE, NoHooks),
      a          |-> Fn("a", "A", TRUE, <<"b">>, ("b" :> "B"), NoParams, NoMap, FALSE, NoHooks),
      b          |-> Fn("b", "B", TRUE, <<"a">>, ("a" :> "A"), NoParams, NoMap, FALSE, NoHooks),
      a_alt      |-> Fn("a_alt", "A", TRUE, NoParams, NoMap, NoParams, NoMap, FALSE, NoHooks),
      timeout    |-> Fn("timeout", "int", TRUE, NoParams, NoMap, NoParams, NoMap, FALSE, NoHooks),
      zero       |-> Fn("zero", "int", FALSE, NoParams, NoMap, NoParams, NoMap, FALSE, NoHooks),
      kw_service |-> Fn("kw_service", "str", TRUE, <<"service">>, ("service" :> "Service"),
                        <<"timeout">>, ("timeout" :> 30), FALSE, NoHooks),
      kw_only    |-> Fn("kw_only", "str", TRUE, NoParams, NoMap,
                        <<"timeout">>, NoMap, FALSE, NoHooks),
      flexible   |-> Fn("flexible", "str", TRUE, <<"service">>, ("service" :> "Service"),
                        <<"timeout">>, ("timeout" :> 30), TRUE, NoHooks),
      failing    |-> Fn("failing", "FailingService", TRUE, NoParams, NoMap, NoParams, NoMap, FALSE,
                        <<Hook("init", TRUE)>>),
      multi_init |-> Fn("multi_init", "MultiInitService", TRUE, NoParams, NoMap, NoParams, NoMap, FALSE,
                        <<Hook("init1", FALSE), Hook("init2", TRUE)>>),
      ordered    |-> Fn("ordered", "OrderedService", TRUE, NoParams, NoMap, NoParams, NoMap, FALSE,
                        <<Hook("start", FALSE), Hook("_warm", FALSE), Hook("connect", FALSE)>>),
      legacy     |-> Fn("legacy", "str", TRUE, <<"x">>, NoMap, NoParams, NoMap, FALSE, NoHooks),
      service_dup |-> Fn("service", "Repository", TRUE, NoParams, NoMap, NoParams, NoMap, FALSE, NoHooks),
      service_bad |-> Fn("service", "BadService", TRUE, NoParams, NoMap, NoParams, NoMap, FALSE,
                         <<Hook("init", TRUE)>>)
    ]

DefIds == DOMAIN DefTable

Names == { DefTable[d].name : d \in DefIds }

Types == { DefTable[d].produces : d \in DefIds }

\* The definitions one application registers in a context come from one of
\* these families
Suites ==
    { {"service", "service2", "Repository", "controller", "legacy", "zero", "service_dup"},
      {"a", "b", "a_alt", "service", "Repository", "failing", "zero"},
      {"service", "service2", "timeout", "zero", "kw_service", "kw_only", "flexible"},
      {"service", "service_dup", "service_bad", "failing", "multi_init", "ordered", "Repository"} }

\* What add() ignores: inspect.ismodule(target)
Modules == {"some_module"}

\* Attribute names in the order dir(obj) lists them (sorted by name)
AttrNames == <<"_warm", "connect", "init", "init1", "init2", "start">>

\* name.startswith("_")
IsPrivate(name) == name \in {"_warm"}

----------------------------------------------------------------------------
(* Lookup API *)

Found(v) == [status |-> "ok", value |-> v]

KeyError == [status |-> "KeyError", value |-> 0]

NotImplementedError == [status |-> "NotImplementedError", value |-> 0]

StrKey(k) == [kind |-> "str", k |-> k]

TypeKey(k) == [kind |-> "type", k |-> k]

\* get_bean(k) against a name map and a type map
GetBeanIn(names, types, key) ==
    IF key.kind = "str"
    THEN IF key.k \in DOMAIN names THEN Found(names[key.k]) ELSE KeyError
    ELSE IF key.kind = "type"
    THEN IF key.k \notin DOMAIN types \/ types[key.k] = <<>>
         THEN KeyError
         ELSE Found(types[key.k][1])
    ELSE NotImplementedError

get_bean(key) == GetBeanIn(bean_names_map, bean_types_map, key)

\* get_beans(_type): the list kept for the type (defaultdict: empty if absent)
get_beans(type) ==
    IF type \in DOMAIN bean_types_map THEN bean_types_map[type] ELSE <<>>

----------------------------------------------------------------------------
(* Signature inspection and dependency resolution *)

\* _instantiate, lines 40-45: the argspec, without 'self' for a class
getfullargspec(d) ==
    LET def == DefTable[d] IN
    [args |-> IF def.is_class THEN Tail(def.args) ELSE def.args,
     annotations |-> def.annotations,
     kwonlyargs |-> def.kwonlyargs,
     kwonlydefaults |-> def.kwonlydefaults,
     varkw |-> def.varkw]

DefaultValue(v) == <<"default", v>>

BeanValue(id) == <<"bean", id>>

TypedBeans(types, t) == IF t \in DOMAIN types THEN types[t] ELSE <<>>

\* The instance bound to a typed positional parameter (line 106)
PickTyped(typed_beans) == typed_beans[1]

\* A slip of line 106: the positional arguments end up in reverse order
ResolvePositionalReversed(spec, types) ==
    LET n == Len(spec.args)
        Bad(k) == \/ spec.args[k] \notin DOMAIN spec.annotations
                  \/ Len(TypedBeans(types, spec.annotations[spec.args[k]])) # 1
        bad == { k \in 1..n : Bad(k) }
    IN  IF bad = {}
        THEN [verdict |-> "ok",
              args |-> [k \in 1..n |->
                          PickTyped(TypedBeans(types,
                                     spec.annotations[spec.args[n + 1 - k]]))]]
        ELSE LET k == CHOOSE m \in bad : \A o \in bad : m <= o
             IN  IF /\ spec.args[k] \in DOMAIN spec.annotations
                    /\ Len(TypedBeans(types, spec.annotations[spec.args[k]])) > 1
                 THEN [verdict |-> "RuntimeError", args |-> <<>>]
                 ELSE [verdict |-> "None", args |-> <<>>]

\* Lines 89-106: positional arguments by annotation, in parameter order.
\* The first parameter that cannot be bound decides: None or RuntimeError.
ResolvePositional(spec, types) ==
    LET n == Len(spec.args)
        Bad(k) == \/ spec.args[k] \notin DOMAIN spec.annotations
                  \/ Len(TypedBeans(types, spec.annotations[spec.args[k]])) # 1
        bad == { k \in 1..n : Bad(k) }
    IN  IF bad = {}
        THEN [verdict |-> "ok",
              args |-> [k \in 1..n |->
                          PickTyped(TypedBeans(types, spec.annotations[spec.args[k]]))]]
        ELSE LET k == CHOOSE m \in bad : \A o \in bad : m <= o
             IN  IF /\ spec.args[k] \in DOMAIN spec.annotations
                    /\ Len(TypedBeans(types, spec.annotations[spec.args[k]])) > 1
                 THEN [verdict |-> "RuntimeError", args |-> <<>>]
                 ELSE [verdict |-> "None", args |-> <<>>]

\* A slip of lines 112-119: the bean name is tried before the default
ResolveKwargNameFirst(spec, names, p) ==
    IF p \in DOMAIN names
    THEN [bound |-> TRUE, value |-> BeanValue(names[p])]
    ELSE IF p \in DOMAIN spec.kwonlydefaults
    THEN [bound |-> TRUE, value |-> DefaultValue(spec.kwonlydefaults[p])]
    ELSE [bound |-> FALSE, value |-> DefaultValue(0)]

\* Lines 112-119 for one keyword-only argument: default first, then bean name
ResolveKwarg(spec, names, p) ==
    IF p \in DOMAIN spec.kwonlydefaults
    THEN [bound |-> TRUE, value |-> DefaultValue(spec.kwonlydefaults[p])]
    ELSE IF p \in DOMAIN names
    THEN [bound |-> TRUE, value |-> BeanValue(names[p])]
    ELSE [bound |-> FALSE, value |-> DefaultValue(0)]

Range(seq) == { seq[k] : k \in DOMAIN seq }

\* A slip of lines 117-119: a keyword-only argument without a default and
\* without a bean of its name is left out instead of deferring the definition
ResolveKwonlySkipsMissing(spec, names) ==
    LET ps == { p \in Range(spec.kwonlyargs) : ResolveKwarg(spec, names, p).bound } IN
    [verdict |-> "ok", kwargs |-> [p \in ps |-> ResolveKwarg(spec, names, p).value]]

\* Lines 109-119: keyword-only arguments
ResolveKwonly(spec, names) ==
    LET ps == Range(spec.kwonlyargs) IN
    IF \A p \in ps : ResolveKwarg(spec, names, p).bound
    THEN [verdict |-> "ok", kwargs |-> [p \in ps |-> ResolveKwarg(spec, names, p).value]]
    ELSE [verdict |-> "None", kwargs |-> NoMap]

\* Line 124: names of the declared parameters
UsedParamNames(spec) == Range(spec.args) \cup Range(spec.kwonlyargs)

\* Lines 122-129: **kwargs receives the beans whose name is no parameter name
ResolveVarkw(spec, names) ==
    IF spec.varkw
    THEN [n \in (DOMAIN names) \ UsedParamNames(spec) |-> BeanValue(names[n])]
    ELSE NoMap

\* _resolve_dependencies(spec): None, RuntimeError or (args, kwargs)
ResolveDependencies(spec, names, types) ==
    LET pos == ResolvePositional(spec, types)
        kw  == ResolveKwonly(spec, names)
    IN  IF pos.verdict # "ok"
        THEN [verdict |-> pos.verdict, args |-> <<>>, kwargs |-> NoMap]
        ELSE IF kw.verdict # "ok"
        THEN [verdict |-> "None", args |-> <<>>, kwargs |-> NoMap]
        ELSE [verdict |-> "ok", args |-> pos.args,
              kwargs |-> kw.kwargs @@ ResolveVarkw(spec, names)]

_resolve_dependencies(d) ==
    ResolveDependencies(getfullargspec(d), bean_names_map, bean_types_map)

----------------------------------------------------------------------------
(* The container *)

\* __init__: nothing pending, both maps empty
Init ==
    /\ bean_defs = <<>>
    /\ bean_names_map = NoMap
    /\ bean_types_map = [t \in Types |-> <<>>]
    /\ pc = "idle"
    /\ i = 0
    /\ obj = 0
    /\ todo = <<>>
    /\ insts = <<>>
    /\ outcome = "none"
    /\ previous = "none"
    /\ reported = <<>>
    /\ registered = <<>>
    /\ decorators_bean_defs = <<>>
    /\ calls = 0
    /\ n0 = 0
    /\ known = 0
    /\ attempts = 0
    /\ built = 0

Program == <<bean_names_map, bean_types_map, insts>>

Control == <<pc, i, obj, todo>>

Ghost == <<outcome, previous, reported, calls, n0, known, attempts, built>>

\* Everything the context of this model holds; appctx/__init__.py binds its
\* bean, add, get_bean, get_beans and refresh to one such context
Context == <<bean_defs, registered, Program, Control, Ghost>>

\* A definition may be registered when no call is running and the bound allows
CanRegister(target) ==
    /\ pc = "idle"
    /\ Len(registered) + Len(decorators_bean_defs) < MaxDefs
    /\ target \notin Range(registered) \cup Range(decorators_bean_defs)
    /\ \E suite \in Suites :
          Range(registered) \cup Range(decorators_bean_defs) \cup {target} \subseteq suite

\* bean(target): the decorator appends the target
bean(target) ==
    /\ CanRegister(target)
    /\ bean_defs' = Append(bean_defs, target)
    /\ registered' = Append(registered, target)
    /\ UNCHANGED <<Program, Control, Ghost, decorators_bean_defs>>

\* add(target): a module is ignored, anything else is appended
add(target) ==
    /\ pc = "idle"
    /\ IF target \in Modules
       THEN UNCHANGED <<bean_defs, registered>>
       ELSE /\ CanRegister(target)
            /\ bean_defs' = Append(bean_defs, target)
            /\ registered' = Append(registered, target)
    /\ UNCHANGED <<Program, Control, Ghost, decorators_bean_defs>>

\* appctx.decorators.bean(func_or_class): forwards to the bean() of the
\* context that appctx/decorators.py creates for itself
decorators_bean(target) ==
    /\ CanRegister(target)
    /\ Len(decorators_bean_defs) < MaxDecorated
    /\ decorators_bean_defs' = Append(decorators_bean_defs, target)
    /\ UNCHANGED Context

\* appctx.decorators.component(func_or_class): return bean(func_or_class)
decorators_component(target) == decorators_bean(target)

\* refresh() is called: the while loop enters _refresh, whose loop starts at 0
RefreshCall ==
    /\ pc = "idle"
    /\ calls < MaxRefresh
    /\ calls' = calls + 1
    /\ pc' = "scan"
    /\ i' = 1
    /\ n0' = Len(bean_defs)
    /\ known' = Len(registered)
    /\ attempts' = 0
    /\ built' = 0
    /\ outcome' = "running"
    /\ previous' = outcome
    /\ reported' = <<>>
    /\ UNCHANGED <<bean_defs, registered, decorators_bean_defs, Program, obj, todo>>

\* A slip of lines 147-152: the error is swallowed inside the loop of
\* _refresh and the loop goes on with the next definition
LeaveSwallowed(how, named) ==
    /\ pc' = "scan"
    /\ i' = i + 1
    /\ obj' = 0
    /\ todo' = <<>>
    /\ outcome' = outcome
    /\ reported' = reported

\* The call ends by raising or returning: control goes back to the caller
Leave(how, named) ==
    /\ pc' = "idle"
    /\ i' = 0
    /\ obj' = 0
    /\ todo' = <<>>
    /\ outcome' = how
    /\ reported' = named

\* dir(obj): the attribute names of the instance, sorted
Dir(d) ==
    SelectSeq(AttrNames, LAMBDA nm : \E k \in DOMAIN DefTable[d].hooks :
                                        DefTable[d].hooks[k].name = nm)

\* The object a factory call returns, with the arguments it was given
NewInstance(d, deps) ==
    [def |-> d, type |-> DefTable[d].produces, truthy |-> DefTable[d].truthy,
     args |-> deps.args, kwargs |-> deps.kwargs, seen |-> bean_names_map,
     hooks_run |-> <<>>, constructed |-> FALSE, call |-> calls]

\* A slip of line 53: the new instance is put in front of the list
RecordTypeInFront(types, t, id) == [types EXCEPT ![t] = <<id>> \o @]

\* Line 53: self.bean_types_map[type(obj)].append(obj)
RecordType(types, t, id) == [types EXCEPT ![t] = Append(@, id)]

\* Line 52: self.bean_names_map[bean_def.__name__] = obj
RecordName(names, n, id) == [x \in (DOMAIN names) \cup {n} |-> IF x = n THEN id ELSE names[x]]

\* "if self._instantiate(b)": the truth value of the returned object
Truthy(log, id) == log[id].truthy

\* bean_defs.pop(i)
Pop(seq, k) == [j \in 1..(Len(seq) - 1) |-> IF j < k THEN seq[j] ELSE seq[j + 1]]

\* _call_post_construct and _instantiate return the object built from
\* bean_defs[k] (log: the objects built so far): a true object is popped and
\* _refresh returns True, so refresh scans again from the front; otherwise
\* the loop of _refresh goes on
InstantiateReturn(id, log, k) ==
    /\ insts' = [log EXCEPT ![id].constructed = TRUE]
    /\ IF Truthy(log, id)
       THEN /\ bean_defs' = Pop(bean_defs, k)
            /\ i' = 1
       ELSE /\ i' = k + 1
            /\ UNCHANGED bean_defs
    /\ pc' = "scan"
    /\ obj' = 0
    /\ todo' = <<>>

\* One iteration of the loop of _refresh: _instantiate(bean_defs[i]) returns
\* None, raises, or calls the factory and records the object; an object
\* without attributes to visit is returned at once, otherwise
\* _call_post_construct takes over
ScanStep ==
    /\ pc = "scan"
    /\ i <= Len(bean_defs)
    /\ attempts' = attempts + 1
    /\ LET d == bean_defs[i]
           deps == _resolve_dependencies(d)
           id == Len(insts) + 1
       IN  CASE deps.verdict = "RuntimeError" ->
                  /\ Leave("AmbiguousType", <<d>>)
                  /\ UNCHANGED <<bean_defs, Program, built>>
             [] deps.verdict = "None" ->
                  /\ i' = i + 1
                  /\ UNCHANGED <<bean_defs, Program, pc, obj, todo, outcome, reported, built>>
             [] deps.verdict = "ok" ->
                  /\ bean_names_map' = RecordName(bean_names_map, DefTable[d].name, id)
                  /\ bean_types_map' = RecordType(bean_types_map, DefTable[d].produces, id)
                  /\ built' = built + 1
                  /\ IF Dir(d) = <<>>
                     THEN InstantiateReturn(id, Append(insts, NewInstance(d, deps)), i)
                     ELSE /\ insts' = Append(insts, NewInstance(d, deps))
                          /\ obj' = id
                          /\ todo' = Dir(d)
                          /\ pc' = "hooks"
                          /\ UNCHANGED <<bean_defs, i>>
                  /\ UNCHANGED <<outcome, reported>>
    /\ UNCHANGED <<registered, decorators_bean_defs, previous, calls, n0, known>>

\* The hook of the current object with the given name
HookNamed(id, nm) ==
    LET hs == DefTable[insts[id].def].hooks
    IN  hs[CHOOSE k \in DOMAIN hs : hs[k].name = nm]

\* One iteration of the loop of _call_post_construct: private names are
\* skipped, a marked method is called and may raise; after the last name
\* _instantiate returns the object
HookStep ==
    /\ pc = "hooks"
    /\ todo # <<>>
    /\ LET nm == Head(todo)
           called == [insts EXCEPT ![obj].hooks_run = Append(@, nm)]
           after == IF IsPrivate(nm) THEN insts ELSE called
       IN  IF ~IsPrivate(nm) /\ HookNamed(obj, nm).raises
           THEN /\ insts' = called
                /\ Leave("HookFailure", <<insts[obj].def>>)
                /\ UNCHANGED bean_defs
           ELSE /\ IF Tail(todo) = <<>>
                   THEN InstantiateReturn(obj, after, i)
                   ELSE /\ insts' = after
                        /\ todo' = Tail(todo)
                        /\ UNCHANGED <<bean_defs, pc, i, obj>>
                /\ UNCHANGED <<outcome, reported>>
    /\ UNCHANGED <<bean_names_map, bean_types_map, registered, decorators_bean_defs, previous,
                   calls, n0, known, attempts, built>>

\* A slip of line 159: only the first pending definition is named
UnresolvedFirstOnly(defs) == <<defs[1]>>

\* Line 159: the definitions the "Could not instantiate" message names
Unresolved(defs) == defs

\* The loop of _refresh is over and _refresh returns False: refresh raises if
\* definitions are left, else returns
ScanEnd ==
    /\ pc = "scan"
    /\ i > Len(bean_defs)
    /\ IF bean_defs # <<>>
       THEN Leave("UnresolvableSet", Unresolved(bean_defs))
       ELSE Leave("returned", <<>>)
    /\ UNCHANGED <<bean_defs, Program, registered, decorators_bean_defs, previous,
                   calls, n0, known, attempts, built>>

Next ==
    \/ \E target \in DefIds : bean(target)
    \/ \E target \in DefIds \cup Modules : add(target)
    \/ \E target \in DefIds : decorators_bean(target)
    \/ \E target \in DefIds : decorators_component(target)
    \/ RefreshCall
    \/ ScanStep
    \/ HookStep
    \/ ScanEnd

Spec == Init /\ [][Next]_vars

----------------------------------------------------------------------------
(* refresh() as a function of the pending list, for comparing two orders *)

\* Whether one of the hooks _call_post_construct calls on an object raises
SomeHookRaises(d) ==
    \E k \in DOMAIN DefTable[d].hooks :
        /\ ~IsPrivate(DefTable[d].hooks[k].name)
        /\ DefTable[d].hooks[k].raises

\* refresh() run to its end on a pending list, instances named by their
\* definition: whether it returns, the name map, and what every factory got.
\* A scan stops at the first definition whose resolution is not None.
RECURSIVE RefreshFrom(_, _, _, _)
RefreshFrom(pending, names, types, wiring) ==
    LET Verdict(k) == ResolveDependencies(getfullargspec(pending[k]), names, types)
        hits == { k \in DOMAIN pending : Verdict(k).verdict # "None" }
    IN  IF hits = {}
        THEN [returns |-> pending = <<>>, names |-> names, wiring |-> wiring]
        ELSE LET k == CHOOSE m \in hits : \A o \in hits : m <= o
                 d == pending[k]
                 deps == Verdict(k)
             IN  IF \/ deps.verdict = "RuntimeError"
                    \/ SomeHookRaises(d)
                    \/ ~DefTable[d].truthy
                 THEN [returns |-> FALSE, names |-> names, wiring |-> wiring]
                 ELSE RefreshFrom(Pop(pending, k),
                                  RecordName(names, DefTable[d].name, d),
                                  RecordType(types, DefTable[d].produces, d),
                                  wiring @@ (d :> [args |-> deps.args, kwargs |-> deps.kwargs]))

\* One fixed listing of the definitions, to put a set of them in one order
DefOrder ==
    <<"service", "service2", "Repository", "controller", "a", "b", "a_alt",
      "timeout", "zero", "kw_service", "kw_only", "flexible", "failing",
      "multi_init", "ordered", "legacy", "service_dup", "service_bad">>

Sorted(S) == SelectSeq(DefOrder, LAMBDA d : d \in S)

\* The registry refresh() builds from the definitions S registered in the
\* order of DefOrder, starting from an empty context
Reference(S) == RefreshFrom(Sorted(S), NoMap, [t \in Types |-> <<>>], NoMap)

----------------------------------------------------------------------------
(* Vocabulary of the properties *)

Registered == Range(registered)

InstIds == DOMAIN insts

\* Instances of a definition, of a type
InstancesOf(d) == { x \in InstIds : insts[x].def = d }

InstancesOfType(t) == { x \in InstIds : insts[x].type = t }

Failures == {"AmbiguousType", "UnresolvableSet", "HookFailure"}

\* A refresh() call has ended and nothing was registered after it started
Settled == pc = "idle" /\ calls > 0 /\ known = Len(registered)

\* The first refresh() call has ended, on all the registered definitions
FirstSettled == Settled /\ calls = 1

\* d has a typed positional parameter of type t
RequiresType(d, t) ==
    \E k \in DOMAIN getfullargspec(d).args :
        LET p == getfullargspec(d).args[k]
        IN  p \in DOMAIN getfullargspec(d).annotations
            /\ getfullargspec(d).annotations[p] = t

\* d has a keyword-only parameter of that name without a default
RequiresName(d, n) ==
    /\ n \in Range(getfullargspec(d).kwonlyargs)
    /\ n \notin DOMAIN getfullargspec(d).kwonlydefaults

\* d needs a bean that e provides
DependsOn(d, e) ==
    \/ RequiresType(d, DefTable[e].produces)
    \/ RequiresName(d, DefTable[e].name)

\* There is a chain of at most k dependencies from d to e within S
RECURSIVE Reaches(_, _, _, _)
Reaches(S, d, e, k) ==
    /\ k > 0
    /\ \/ DependsOn(d, e)
       \/ \E m \in S : DependsOn(d, m) /\ Reaches(S, m, e, k - 1)

Acyclic(S) == \A d \in S : ~Reaches(S, d, d, Cardinality(S))

\* Every parameter of every definition in S has a provider in S
Provided(S) ==
    \A d \in S :
        /\ \A k \in DOMAIN getfullargspec(d).args :
              /\ getfullargspec(d).args[k] \in DOMAIN getfullargspec(d).annotations
              /\ \E e \in S : DefTable[e].produces =
                       getfullargspec(d).annotations[getfullargspec(d).args[k]]
        /\ \A n \in Range(getfullargspec(d).kwonlyargs) :
              RequiresName(d, n) => \E e \in S : DefTable[e].name = n

\* What the instance of each definition was given, instances named by definition
DefOf(v) == IF v[1] = "bean" THEN <<"bean", insts[v[2]].def>> ELSE v

WiringOf(x) ==
    [args |-> [k \in DOMAIN insts[x].args |-> insts[insts[x].args[k]].def],
     kwargs |-> [n \in DOMAIN insts[x].kwargs |-> DefOf(insts[x].kwargs[n])]]

----------------------------------------------------------------------------
(* C1 *)

\* C1 (as claimed): for definitions without a dependency cycle (every
\* dependency provided, no hook raising, every factory returning a true
\* object), the first refresh() returns whatever the registration order, and
\* the registry equals the one built from the same definitions in the
\* reference order: same bean names, and every bean got the same positional,
\* named and catch-all arguments.
C1_OrderIndependent ==
    (/\ FirstSettled
     /\ Acyclic(Registered)
     /\ Provided(Registered)
     /\ \A d \in Registered : ~SomeHookRaises(d) /\ DefTable[d].truthy)
    => /\ outcome = "returned"
       /\ Reference(Registered).returns
       /\ DOMAIN bean_names_map = DOMAIN Reference(Registered).names
       /\ \A x \in InstIds :
             /\ insts[x].def \in DOMAIN Reference(Registered).wiring
             /\ WiringOf(x) = Reference(Registered).wiring[insts[x].def]

----------------------------------------------------------------------------
(* C2 *)

\* The definition whose hook ended the last refresh() call
HookFailed(d) == pc = "idle" /\ outcome = "HookFailure" /\ reported = <<d>>

\* C2 (as claimed): when a post-construct hook of a freshly built bean
\* raises, refresh() fails with that error and afterwards get_bean(<name of
\* the bean>) raises KeyError, also when an earlier hook of the bean succeeded.
C2_FailedHookUnregisters ==
    \A d \in DefIds :
        HookFailed(d) => get_bean(StrKey(DefTable[d].name)) = KeyError

----------------------------------------------------------------------------
(* C3 *)

\* Two registered definitions produce t and c takes t as its typed
\* positional parameters (and no other type)
AmbiguousFor(c, t) ==
    /\ c \in Registered
    /\ RequiresType(c, t)
    /\ \A u \in Types : RequiresType(c, u) => u = t
    /\ \E p, q \in Registered \ {c} :
          /\ p # q
          /\ DefTable[p].produces = t
          /\ DefTable[q].produces = t
          /\ getfullargspec(p).args = <<>>
          /\ getfullargspec(q).args = <<>>

\* C3 (as claimed): with two producers of a type and a third definition
\* requiring that type as a typed positional dependency, refresh() fails with
\* AmbiguousType and the third definition is never instantiated, wherever it
\* stands in the registration order.
C3_AmbiguousWhateverOrder ==
    \A c \in DefIds :
        (/\ FirstSettled
         /\ Len(registered) = 3
         /\ \E t \in Types : AmbiguousFor(c, t))
        => /\ outcome = "AmbiguousType"
           /\ InstancesOf(c) = {}

----------------------------------------------------------------------------
(* C4 *)

\* Each of the two definitions takes the other's type as a typed positional
\* parameter
Mutual(d, e) ==
    /\ d # e
    /\ RequiresType(d, DefTable[e].produces)
    /\ RequiresType(e, DefTable[d].produces)

NoOtherProducer(d, e) ==
    \A x \in Registered \ {d, e} :
        DefTable[x].produces \notin {DefTable[d].produces, DefTable[e].produces}

----------------------------------------------------------------------------
(* C5 *)

\* C5 (as claimed): a refresh() call on n pending definitions instantiates at
\* most n times and makes at most n*n attempts to resolve a definition (so
\* it ends).
C5_Bounded ==
    outcome # "none" => (built <= n0 /\ attempts <= n0 * n0)

----------------------------------------------------------------------------
(* C6 *)

\* x went through its factory and all its hooks, and no bean committed
\* later took over its name
LastCommitted(x) ==
    /\ insts[x].constructed
    /\ ~\E y \in InstIds :
           /\ y > x
           /\ insts[y].constructed
           /\ DefTable[insts[y].def].name = DefTable[insts[x].def].name

\* C6 (as claimed): when refresh() has raised, every bean committed before
\* the failing step is still returned by get_bean(<name>) and still in
\* get_beans(<its type>).
C6_CommittedSurvive ==
    (pc = "idle" /\ outcome \in Failures)
    => \A x \in InstIds :
          LastCommitted(x)
          => /\ get_bean(StrKey(DefTable[insts[x].def].name)) = Found(x)
             /\ x \in Range(get_beans(insts[x].type))

----------------------------------------------------------------------------
(* C7 *)

\* The declared type of the k-th positional parameter of the definition of x
ParamType(x, k) ==
    getfullargspec(insts[x].def).annotations[getfullargspec(insts[x].def).args[k]]

\* C7: after refresh() returned, every instance got one argument per
\* positional parameter, in parameter order, and the argument for a
\* parameter of type T is the instance get_bean(T) returns (hence the one
\* every other consumer of T got).
C7_SharedInstance ==
    (pc = "idle" /\ outcome = "returned")
    => \A x \in InstIds :
          /\ Len(insts[x].args) = Len(getfullargspec(insts[x].def).args)
          /\ \A k \in DOMAIN insts[x].args :
                get_bean(TypeKey(ParamType(x, k))) = Found(insts[x].args[k])

C7_Witness ==
    /\ pc = "idle"
    /\ outcome = "returned"
    /\ \E x, y \in InstIds :
          /\ insts[x].def = "controller"
          /\ insts[y].def = "Repository"
          /\ insts[x].args[1] = y
          /\ insts[x].args[2] = insts[y].args[1]

----------------------------------------------------------------------------
(* C8 *)

\* The signature without its keyword-only parameters that have a default
WithoutDefaulted(spec) ==
    [spec EXCEPT !.kwonlyargs =
        SelectSeq(@, LAMBDA p : p \notin DOMAIN spec.kwonlydefaults)]

Defaulted(d) ==
    Range(getfullargspec(d).kwonlyargs) \cap DOMAIN getfullargspec(d).kwonlydefaults

----------------------------------------------------------------------------
(* C9 *)

\* The instances bound to a positional or a named parameter of x
BoundTo(x) ==
    Range(insts[x].args) \cup
    { insts[x].kwargs[p][2] :
        p \in { q \in Range(getfullargspec(insts[x].def).kwonlyargs) :
                  insts[x].kwargs[q][1] = "bean" } }

\* The names passed through **kwargs
CatchAll(x) ==
    (DOMAIN insts[x].kwargs) \ Range(getfullargspec(insts[x].def).kwonlyargs)

\* C9 (as claimed): a definition with **kwargs receives there exactly the
\* beans of the name map that were not bound to one of its positional or
\* named parameters, each under its name.
C9_CatchAllUnbound ==
    \A x \in InstIds :
        getfullargspec(insts[x].def).varkw
        => /\ CatchAll(x) = { n \in DOMAIN insts[x].seen :
                                 insts[x].seen[n] \notin BoundTo(x) }
           /\ \A n \in CatchAll(x) : insts[x].kwargs[n] = BeanValue(insts[x].seen[n])

----------------------------------------------------------------------------
(* C10 *)

\* The first instance of the type ever created
FirstRecorded(t) ==
    CHOOSE x \in InstancesOfType(t) : \A y \in InstancesOfType(t) : x <= y

\* C10: get_bean(T) returns the first instance ever recorded for T however
\* many there are, raises KeyError exactly when none was recorded, and
\* raises nothing else.
C10_FirstOfType ==
    \A t \in Types :
        IF InstancesOfType(t) = {}
        THEN get_bean(TypeKey(t)) = KeyError
        ELSE get_bean(TypeKey(t)) = Found(FirstRecorded(t))

C10_Witness ==
    /\ Cardinality(InstancesOfType("Service")) >= 2
    /\ get_bean(TypeKey("Service")) = Found(FirstRecorded("Service"))
    /\ InstancesOfType("Repository") = {}
    /\ get_bean(TypeKey("Repository")) = KeyError

----------------------------------------------------------------------------
(* C11 *)

\* Factories that return an interned constant (the ints 10 and 0): every
\* call of such a factory returns one and the same object
Interned == {"timeout", "zero"}

\* The object the x-th factory call returned
ObjectOf(x) ==
    IF insts[x].def \in Interned THEN <<"constant", insts[x].def>> ELSE <<"object", x>>

\* The results of the factory calls that produced type t, in call order
RECURSIVE Successes(_, _)
Successes(t, n) ==
    IF n = 0 THEN <<>>
    ELSE IF insts[n].type = t THEN Append(Successes(t, n - 1), n)
    ELSE Successes(t, n - 1)

\* C11 (as claimed): get_beans(T) lists the instances recorded for T in the
\* order their factories succeeded, all of them and no object twice; it is
\* the empty sequence when no instance of T exists, and it never raises.
C11_AllOfTypeOnce ==
    \A t \in Types :
        /\ get_beans(t) = Successes(t, Len(insts))
        /\ \A j, k \in DOMAIN get_beans(t) :
              j # k => ObjectOf(get_beans(t)[j]) # ObjectOf(get_beans(t)[k])

----------------------------------------------------------------------------
(* C12 *)

\* How often x occurs in a list
Occurrences(list, x) == Cardinality({ k \in DOMAIN list : list[k] = x })

\* C12 (as claimed): after refresh() returned, nothing is pending and every
\* registered definition has exactly one instance: its factory was invoked
\* once, get_bean(<its name>) returns the instance, and the instance is once
\* in the list of its type.
C12_OneInstanceEach ==
    (Settled /\ outcome = "returned")
    => /\ bean_defs = <<>>
       /\ \A d \in Registered :
             /\ Cardinality(InstancesOf(d)) = 1
             /\ \A x \in InstancesOf(d) :
                   /\ get_bean(StrKey(DefTable[d].name)) = Found(x)
                   /\ Occurrences(get_beans(insts[x].type), x) = 1

----------------------------------------------------------------------------
(* C13 *)

\* The instances get_bean and get_beans can return
Visible ==
    Range(bean_names_map) \cup UNION { Range(bean_types_map[t]) : t \in Types }

\* Every hook _call_post_construct calls on x has been called and returned
HooksCompleted(x) ==
    /\ insts[x].constructed
    /\ \A k \in DOMAIN DefTable[insts[x].def].hooks :
          LET h == DefTable[insts[x].def].hooks[k]
          IN  ~IsPrivate(h.name) => (h.name \in Range(insts[x].hooks_run) /\ ~h.raises)

\* C13 (as claimed): in every reachable state, every instance that get_bean
\* or get_beans can return has had all its post-construct hooks run to
\* completion.
C13_VisibleAfterHooks == \A x \in Visible : HooksCompleted(x)

----------------------------------------------------------------------------
(* C14 *)

\* The definition whose instance a name map binds to n
BoundDef(names, log, n) == log[names[n]].def

\* C14 (as claimed): no step replaces the instance bound to a name by the
\* instance of another definition: recording under a name that a different
\* definition's instance holds fails (DuplicateName) and leaves the binding
\* in place.
C14_NoSilentOverwrite ==
    [][\A n \in DOMAIN bean_names_map :
          /\ n \in DOMAIN bean_names_map'
          /\ BoundDef(bean_names_map', insts', n) = BoundDef(bean_names_map, insts, n)]_vars

----------------------------------------------------------------------------
(* C15 *)

\* The names of the methods of x marked with post_construct, as declared
Declared(x) ==
    [k \in DOMAIN DefTable[insts[x].def].hooks |-> DefTable[insts[x].def].hooks[k].name]

IsPrefix(s, t) == Len(s) <= Len(t) /\ \A k \in DOMAIN s : s[k] = t[k]

\* C15 (as claimed): the hooks of an instance are invoked in the order of
\* their declaration, each once, all of them once the instance is complete,
\* and none after one that raised.
C15_DeclarationOrder ==
    \A x \in InstIds :
        /\ IsPrefix(insts[x].hooks_run, Declared(x))
        /\ insts[x].constructed => insts[x].hooks_run = Declared(x)
        /\ \A k \in DOMAIN insts[x].hooks_run :
              HookNamed(x, insts[x].hooks_run[k]).raises => k = Len(insts[x].hooks_run)

----------------------------------------------------------------------------
(* C16 *)

\* The definitions registered through a convenience function: appctx.bean,
\* appctx.add, appctx.decorators.bean, appctx.decorators.component
ConvenienceRegistered == Range(registered) \cup Range(decorators_bean_defs)

\* C16 (as claimed): when the top-level refresh() returns, every definition
\* registered through any convenience function has been instantiated and
\* its instance is in the list the top-level get_beans returns for its type.
C16_OneDefaultContext ==
    [][(pc = "scan" /\ pc' = "idle" /\ outcome' = "returned")
        => \A d \in ConvenienceRegistered :
              \E x \in DOMAIN insts' :
                  /\ insts'[x].def = d
                  /\ x \in Range(bean_types_map'[insts'[x].type])]_vars

----------------------------------------------------------------------------
(* C17 *)

\* The keyword-only parameters of d without a default
RequiredNames(d) ==
    { n \in Range(getfullargspec(d).kwonlyargs) : RequiresName(d, n) }

----------------------------------------------------------------------------
(* C18 *)

\* C18 (as claimed): once a factory call of a definition has returned and
\* the hooks of the object have succeeded, the definition is no longer
\* pending and that call is the only factory call of the definition.
C18_RemovedOnce ==
    \A x \in InstIds :
        insts[x].constructed
        => /\ insts[x].def \notin Range(bean_defs)
           /\ InstancesOf(insts[x].def) = {x}

----------------------------------------------------------------------------
(* C19 *)

\* s is t with some elements left out
RECURSIVE IsSubsequence(_, _)
IsSubsequence(s, t) ==
    IF s = <<>> THEN TRUE
    ELSE IF t = <<>> THEN FALSE
    ELSE IF Head(s) = Head(t) THEN IsSubsequence(Tail(s), Tail(t))
    ELSE IsSubsequence(s, Tail(t))

\* C19 (as claimed): the pending definitions keep their registration order,
\* and a scan has passed only definitions that are not resolvable against
\* the current registry: the definition a scan instantiates is the earliest
\* resolvable one, and after an instantiation the scan is back at the front.
C19_EarliestResolvableFirst ==
    /\ IsSubsequence(bean_defs, registered)
    /\ pc = "scan" =>
          \A j \in DOMAIN bean_defs :
              j < i => _resolve_dependencies(bean_defs[j]).verdict = "None"

----------------------------------------------------------------------------
(* C20 *)

\* The definition the scan is about to try resolves to AmbiguousType
AmbiguousNext ==
    /\ pc = "scan"
    /\ i <= Len(bean_defs)
    /\ _resolve_dependencies(bean_defs[i]).verdict = "RuntimeError"

----------------------------------------------------------------------------
(* C21 *)

\* C21 (as claimed): when refresh() has ended with the "Could not
\* instantiate" error (nothing registered since the call started), the error
\* names exactly the pending definitions, and none of them is resolvable
\* against the registry or has an instance in the name map or the type map.
C21_UnresolvableSetExact ==
    (Settled /\ outcome = "UnresolvableSet")
    => /\ bean_defs # <<>>
       /\ reported = bean_defs
       /\ \A k \in DOMAIN reported :
             /\ _resolve_dependencies(reported[k]).verdict = "None"
             /\ InstancesOf(reported[k]) \cap Visible = {}

----------------------------------------------------------------------------
(* C22 *)

\* The entries of the type map that are results of the factory of d
TypeMapEntries(d) ==
    { <<t, k>> \in Types \X (1..Len(insts)) :
          k \in DOMAIN bean_types_map[t] /\ insts[bean_types_map[t][k]].def = d }

\* C22 (as claimed): between calls, whatever registrations and refresh()
\* calls were made (failed ones included), every registered definition has
\* at most one entry in the type map, and no pending definition has an
\* instance in the name map or the type map.
C22_AtMostOneInstance ==
    pc = "idle"
    => \A d \in Registered :
          /\ Cardinality(TypeMapEntries(d)) <= 1
          /\ d \in Range(bean_defs) => InstancesOf(d) \cap Visible = {}

----------------------------------------------------------------------------
(* C23 *)

\* A refresh() call is running and the call before it returned
AfterSuccess == pc # "idle" /\ previous = "returned"

\* The definitions registered between the call that returned and this one:
\* the pending list of the running call when it started
NewlyRegistered ==
    { registered[k] : k \in (known - n0 + 1)..known }

\* The objects built by earlier calls
Existing == { x \in DOMAIN insts : insts[x].call < calls }

\* The step keeps every object built by earlier calls: unchanged, still in
\* the list of its type at the same place, still bound to its name
ExistingKept ==
    /\ \A x \in Existing : x \in DOMAIN insts' /\ insts'[x] = insts[x]
    /\ \A t \in Types : IsPrefix(bean_types_map[t], bean_types_map'[t])
    /\ \A n \in DOMAIN bean_names_map :
          bean_names_map[n] \in Existing
          => n \in DOMAIN bean_names_map' /\ bean_names_map'[n] = bean_names_map[n]

\* C23 (as claimed): in a refresh() call that follows one that returned,
\* every step keeps the existing instances and their entries in the name map
\* and the type map, and a factory is invoked for newly registered
\* definitions only; with nothing newly registered no factory and no hook is
\* invoked, both maps stay as they are, and the call returns.
C23_IdempotentIncremental ==
    [][AfterSuccess
        => /\ ExistingKept
           /\ \A x \in (DOMAIN insts') \ (DOMAIN insts) :
                 insts'[x].def \in NewlyRegistered
           /\ n0 = 0 => /\ UNCHANGED <<bean_names_map, bean_types_map, insts>>
                        /\ pc' = "idle"
                        /\ outcome' = "returned"]_vars

====
